---- MODULE Spec2Model ----
(***************************************************************************)
(* Deal Finder: the Matcher batch job (scripts/cross_reference_zillow.py)  *)
(* and the /api/deals filter-and-paginate handler (app/app.py).            *)
(*                                                                         *)
(* Units.  Positions are whole metres along one meridian, where the        *)
(* Haversine distance of calculate_distance is R * |dlat|, i.e. the        *)
(* absolute difference of the two positions.  Scores are kept in units of  *)
(* 1/10000 (ScoreOne is the score 1.0), so 0.6 * distance_score + 0.4 *    *)
(* price_score is 6 * (distance_score in 1/1000) + 4 * (price_score in     *)
(* 1/1000).  The prices of the listings below make every quotient exact.   *)
(***************************************************************************)
EXTENDS Integers, Sequences, FiniteSets, TLC

\* ----------------------------------------------------------------- bounds
\* Longest batch fetch_deals_with_locations returns in the model.
MaxDeals == 2
\* Matcher runs (invocations of main) in one behaviour.
MaxRuns == 2

\* ------------------------------------------------------ program constants
\* distance / 1000: "1km max for full score".
DistanceNorm == 1000
\* 0.6 * distance_score + 0.4 * price_score, in tenths.
WeightDistance == 6
WeightPrice == 4
\* if score >= 0.5, in units of 1/10000.
Threshold == 5000
\* The placeholder listing lies 0.01 degrees north and 0.01 degrees east of
\* the deal: about 1,414 m away, and never less than the 1,112 m of its
\* latitude offset alone.
MockOffsetMeters == 1414
\* The placeholder listing's price is price * 0.95.
MockPricePercent == 95

ScoreOne == (WeightDistance + WeightPrice) * DistanceNorm

VARIABLES
    deals,          \* main: deals, the batch fetch_deals_with_locations returned
    pc,             \* main: where the run is
    di,             \* main: index of the next deal of "for deal in deals"
    scores,         \* main: the values of score in the last deal's "for prop in zillow_props"
    all_matches,    \* main: all_matches
    all_contacts,   \* main: all_contacts
    tx,             \* rows executed on the open connection, not yet committed
    ti,             \* save_matches / save_contacts: index of the next row to insert
    matchRows,      \* committed rows of app.deal_zillow_matches, in insertion order
    contactRows,    \* committed rows of app.zillow_contacts, in insertion order
    view,           \* match rows app.deals_enriched was built from at its last refresh
    run,            \* number of runs of main started
    baseM,          \* history: Len(matchRows) when the current run started
    baseC,          \* history: Len(contactRows) when the current run started
    refreshes,      \* history: calls of refresh_enriched_view that returned, this run
    saveCalls,      \* history: calls of save_matches, this run
    failure         \* history: what ended the current run early ("none" if nothing)

matcherVars == <<deals, pc, di, scores, all_matches, all_contacts, tx, ti, matchRows,
                 contactRows, view, run, baseM, baseC, refreshes, saveCalls, failure>>

\* The state of the /api/deals handler.
VARIABLES
    rows,       \* app.deals_enriched, ordered by created_at DESC
    debug,      \* app.debug
    hpc,        \* get_deals: where the handler is
    request,    \* request.args: the raw query arguments
    args,       \* get_deals: the parsed and normalised parameters
    conn,       \* get_deals: conn ("none" before get_db_connection, then "up" or "down")
    in_area,    \* get_deals: all_deals_in_area / deals_in_area, the location stage's result
    response,   \* the response get_deals returned
    io          \* history: the I/O get_deals has done for this request, and "raised" if it raised

apiVars == <<rows, debug, hpc, request, args, conn, in_area, response, io>>

\* A reader of app.deals_enriched beside the Matcher.
VARIABLES
    viewLock,     \* who holds the ACCESS EXCLUSIVE lock on app.deals_enriched ("none" or "refresh")
    rpc,          \* the reader's query: "idle", "waiting" for the lock, or "done"
    seen,         \* the match rows of the view the reader's query returned
    viewHistory   \* history: every content app.deals_enriched has had, oldest first

concVars == <<viewLock, rpc, seen, viewHistory>>

\* DataRefreshScheduler (scripts/data_refresh_scheduler.py).
VARIABLES
    now,                \* datetime.now(), in whole hours since 1 January of year 0, 00:00
    schedule_file,      \* config/refresh_schedule.json: None while it does not exist
    REFRESH_SCHEDULES,  \* the module's dict of the running scheduler process
    spc,                \* where the scheduler process is ("off" when none runs)
    skey,               \* run_scheduled_jobs: index of the job the loop is at
    success,            \* run_scheduled_jobs: success of the script just run
    jobs_run,           \* run_scheduled_jobs: jobs_run
    invocation,         \* number of scheduler processes started
    runLog              \* history: one record per job run

schedVars == <<now, schedule_file, REFRESH_SCHEDULES, spc, skey, success, jobs_run,
               invocation, runLog>>

\* The migration runners (cdk/lambda/postgis/index.py, scripts/setup_database.py).
VARIABLES
    mpc,          \* where the running migration runner is ("off" when none runs)
    mfile,        \* index of the file the runner's loop is at, in sorted order
    mtx,          \* migrations whose statements are executed in the open transaction
    applied,      \* history: migrations whose statements were committed, in commit order
    recorded,     \* ids in schema_migrations
    tableKind,    \* whose schema_migrations table exists: "none", "lambda" or "setup"
    mruns         \* runs of a migration runner started

migVars == <<mpc, mfile, mtx, applied, recorded, tableKind, mruns>>

\* PropertyImporter.bulk_insert_properties (scripts/bulk_import.py).
VARIABLES
    properties,        \* bulk_insert_properties: properties
    batch_size,        \* bulk_insert_properties: batch_size
    bpc,               \* where bulk_insert_properties is
    bi,                \* the loop's i: index before the current batch
    valid_properties,  \* the current batch's validated properties
    bk,                \* index of the next of valid_properties to insert
    bpending,          \* properties inserted in the open transaction
    stored,            \* properties committed to app.deals / app.deal_locations
    total_inserted,    \* bulk_insert_properties: total_inserted
    bconn,             \* self.conn: "open", or "lost" once the server connection broke
    result,            \* what bulk_insert_properties returned (None before, and if it raised)
    processed          \* history: the i of every batch the loop has entered

bulkVars == <<properties, batch_size, bpc, bi, valid_properties, bk, bpending, stored,
              total_inserted, bconn, result, processed>>

toolVars == <<concVars, schedVars, migVars, bulkVars>>

vars == <<matcherVars, apiVars, toolVars>>

\* ------------------------------------------------------------- the inputs
\* Deals of app.deals joined with app.deal_locations: id, position, price.
DealTable ==
    <<[id |-> 1, pos |-> 0,    price |-> 1000],
      [id |-> 2, pos |-> 5000, price |-> 1000],
      [id |-> 3, pos |-> 9000, price |-> 0]>>

DealIds == 1..Len(DealTable)

\* What the listings provider holds near each deal.  Deal 1: an identical
\* listing (score 1.0) and one scoring exactly 0.5.  Deal 2: one scoring just
\* below 0.5 (0.4994) and one 400 m away priced three times the deal (0.36).
\* Deal 3 (price 0): one at the deal's position (0.6) and one 200 m away (0.48).
\* Deal 1 also has a listing at its own price exactly 1000 m away (0.4), and
\* deal 3 a priced listing 100 m away (0.54).
ProviderListings(deal) ==
    CASE deal.id = 1 -> <<[zillow_id |-> 11, pos |-> 0,    price |-> 1000],
                          [zillow_id |-> 12, pos |-> 500,  price |-> 500],
                          [zillow_id |-> 13, pos |-> 1000, price |-> 1000]>>
      [] deal.id = 2 -> <<[zillow_id |-> 21, pos |-> 5501, price |-> 500],
                          [zillow_id |-> 22, pos |-> 5400, price |-> 3000]>>
      [] OTHER       -> <<[zillow_id |-> 31, pos |-> 9000, price |-> 0],
                          [zillow_id |-> 32, pos |-> 8800, price |-> 500],
                          [zillow_id |-> 33, pos |-> 9100, price |-> 700]>>

RECURSIVE SeqsOfDistinct(_, _)
\* The sequences of n distinct elements of S.
SeqsOfDistinct(S, n) ==
    IF n = 0 THEN {<<>>}
    ELSE UNION {{Append(s, x) : x \in S \ {s[i] : i \in 1..Len(s)}} :
                s \in SeqsOfDistinct(S, n - 1)}

\* The batches main may fetch: up to MaxDeals distinct deals, in any order.
Batches ==
    UNION {{[i \in 1..n |-> DealTable[ids[i]]] : ids \in SeqsOfDistinct(DealIds, n)} :
           n \in 0..MaxDeals}

\* ------------------------------------------------------------- GeoMath
Abs(x) == IF x < 0 THEN -x ELSE x
Max(a, b) == IF a >= b THEN a ELSE b
Min(a, b) == IF a <= b THEN a ELSE b

calculate_distance(p1, p2) == Abs(p2 - p1)

calculate_match_score_10km(deal, zillow_prop) ==
    LET distance == calculate_distance(deal.pos, zillow_prop.pos)
        distance_score == Max(0, DistanceNorm - distance \div 10)
        price_diff == Abs(deal.price - zillow_prop.price)
        price_score == IF deal.price > 0
                       THEN Max(0, DistanceNorm - (price_diff * DistanceNorm) \div deal.price)
                       ELSE 0
    IN  WeightDistance * distance_score + WeightPrice * price_score

calculate_match_score_swapped(deal, zillow_prop) ==
    LET distance == calculate_distance(deal.pos, zillow_prop.pos)
        distance_score == Max(0, DistanceNorm - distance)
        price_diff == Abs(deal.price - zillow_prop.price)
        price_score == IF deal.price > 0
                       THEN Max(0, DistanceNorm - (price_diff * DistanceNorm) \div deal.price)
                       ELSE 0
    IN  WeightPrice * distance_score + WeightDistance * price_score

calculate_match_score(deal, zillow_prop) ==
    LET distance == calculate_distance(deal.pos, zillow_prop.pos)
        distance_score == Max(0, DistanceNorm - distance)
        price_diff == Abs(deal.price - zillow_prop.price)
        price_score == IF deal.price > 0
                       THEN Max(0, DistanceNorm - (price_diff * DistanceNorm) \div deal.price)
                       ELSE 0
    IN  WeightDistance * distance_score + WeightPrice * price_score

\* --------------------------------------------------------- CandidateSource
\* The placeholder's one listing.
MockListing(deal) ==
    [zillow_id |-> 12345,
     pos       |-> deal.pos + MockOffsetMeters,
     price     |-> (deal.price * MockPricePercent) \div 100]

\* search_zillow_properties is a placeholder for the provider call: the model
\* returns the placeholder's listing followed by the provider's listings.
search_zillow_properties(deal) == <<MockListing(deal)>> \o ProviderListings(deal)

\* ----------------------------------------------------------------- main
AcceptsLow(s) == s >= Threshold - DistanceNorm

\* if score >= 0.5
Accepts(s) == s >= Threshold

MatchOf(deal, prop) ==
    [deal_id      |-> deal.id,
     zillow_id    |-> prop.zillow_id,
     score        |-> calculate_match_score(deal, prop),
     deal_pos     |-> deal.pos,
     zillow_pos   |-> prop.pos,
     deal_price   |-> deal.price,
     zillow_price |-> prop.price]

\* fetch_zillow_contacts always returns the agent's details; main adds the ids.
ContactOf(deal, prop) ==
    [deal_id |-> deal.id, zillow_id |-> prop.zillow_id, agent_name |-> "John Doe"]

RECURSIVE SelectProps(_, _, _)
\* The props of props[k..] that main accepts for deal, in order.
SelectProps(deal, props, k) ==
    IF k > Len(props) THEN <<>>
    ELSE (IF Accepts(calculate_match_score(deal, props[k])) THEN <<props[k]>> ELSE <<>>)
         \o SelectProps(deal, props, k + 1)

MatchesFor(deal) ==
    LET acc == SelectProps(deal, search_zillow_properties(deal), 1)
    IN  [k \in 1..Len(acc) |-> MatchOf(deal, acc[k])]

ContactsFor(deal) ==
    LET acc == SelectProps(deal, search_zillow_properties(deal), 1)
    IN  [k \in 1..Len(acc) |-> ContactOf(deal, acc[k])]

ScoresFor(deal) ==
    LET props == search_zillow_properties(deal)
    IN  [k \in 1..Len(props) |-> calculate_match_score(deal, props[k])]

MatchRowNoZeroGuard(match) ==
    [deal_id            |-> match.deal_id,
     zillow_id          |-> match.zillow_id,
     match_score        |-> match.score,
     distance_meters    |-> calculate_distance(match.deal_pos, match.zillow_pos),
     price_diff_percent |-> ((match.zillow_price - match.deal_price) * 100)
                                \div Max(1, match.deal_price)]

\* save_matches: the row one INSERT writes.
MatchRow(match) ==
    [deal_id            |-> match.deal_id,
     zillow_id          |-> match.zillow_id,
     match_score        |-> match.score,
     distance_meters    |-> calculate_distance(match.deal_pos, match.zillow_pos),
     price_diff_percent |-> IF match.deal_price > 0
                            THEN ((match.zillow_price - match.deal_price) * 100)
                                     \div match.deal_price
                            ELSE 0]

\* save_contacts: the row one INSERT writes.
ContactRow(contact) ==
    [deal_id |-> contact.deal_id, zillow_id |-> contact.zillow_id,
     agent_name |-> contact.agent_name]

AfterMatchesSkipsContacts(contacts) == "refresh"

\* Where main goes after "if all_matches: save_matches(all_matches)".
AfterMatches(contacts) == IF contacts # <<>> THEN "save_contacts" ELSE "refresh"

\* Where main goes after the for loop.
AfterLoop(matches, contacts) ==
    IF matches # <<>> THEN "save_matches" ELSE AfterMatches(contacts)

RolledBackKeepsPending(table, pending) == table \o pending

\* An exception inside "with get_db_connection() as conn": the connection's
\* context manager rolls the transaction back, the table keeps its rows.
RolledBack(table, pending) == table

\* conn.commit()
Committed(table, pending) == table \o pending

Running == pc \in {"loop", "save_matches", "save_contacts", "refresh"}
Ended == pc \in {"done", "failed", "crashed"}

MatcherStart ==
    /\ pc = "idle"
    /\ di = 1
    /\ scores = <<>>
    /\ all_matches = <<>>
    /\ all_contacts = <<>>
    /\ tx = <<>>
    /\ ti = 1
    /\ matchRows = <<>>
    /\ contactRows = <<>>
    /\ view = <<>>
    /\ run = 0
    /\ baseM = 0
    /\ baseC = 0
    /\ refreshes = 0
    /\ saveCalls = 0
    /\ failure = "none"

\* The scheduler starts main; fetch_deals_with_locations returns the batch.
StartRun ==
    /\ pc = "idle" \/ Ended
    /\ run < MaxRuns
    /\ run' = run + 1
    /\ pc' = "loop"
    /\ di' = 1
    /\ scores' = <<>>
    /\ all_matches' = <<>>
    /\ all_contacts' = <<>>
    /\ tx' = <<>>
    /\ ti' = 1
    /\ baseM' = Len(matchRows)
    /\ baseC' = Len(contactRows)
    /\ refreshes' = 0
    /\ saveCalls' = 0
    /\ failure' = "none"
    /\ UNCHANGED <<deals, matchRows, contactRows, view>>
    /\ UNCHANGED <<apiVars, toolVars>>

\* One iteration of "for deal in deals".  Nothing in main catches an
\* exception of search_zillow_properties: it ends the run.
ProcessDeal ==
    /\ pc = "loop"
    /\ di <= Len(deals)
    /\ \/ /\ all_matches' = all_matches \o MatchesFor(deals[di])
          /\ all_contacts' = all_contacts \o ContactsFor(deals[di])
          /\ scores' = ScoresFor(deals[di])
          /\ di' = di + 1
          /\ UNCHANGED <<pc, failure>>
       \/ /\ pc' = "failed"
          /\ failure' = "lookup"
          /\ UNCHANGED <<all_matches, all_contacts, scores, di>>
    /\ UNCHANGED <<deals, tx, ti, matchRows, contactRows, view, run, baseM, baseC,
                   refreshes, saveCalls>>
    /\ UNCHANGED <<apiVars, toolVars>>

\* The for loop is over: main goes on to the writes.
EndLoop ==
    /\ pc = "loop"
    /\ di > Len(deals)
    /\ pc' = AfterLoop(all_matches, all_contacts)
    /\ saveCalls' = IF pc' = "save_matches" THEN saveCalls + 1 ELSE saveCalls
    /\ tx' = <<>>
    /\ ti' = 1
    /\ UNCHANGED <<deals, di, scores, all_matches, all_contacts, matchRows, contactRows,
                   view, run, baseM, baseC, refreshes, failure>>
    /\ UNCHANGED <<apiVars, toolVars>>

\* save_matches: one cur.execute(INSERT), which may raise.
InsertMatch ==
    /\ pc = "save_matches"
    /\ ti <= Len(all_matches)
    /\ \/ /\ tx' = Append(tx, MatchRow(all_matches[ti]))
          /\ ti' = ti + 1
          /\ UNCHANGED <<pc, failure, matchRows>>
       \/ /\ matchRows' = RolledBack(matchRows, tx)
          /\ tx' = <<>>
          /\ pc' = "failed"
          /\ failure' = "match_insert"
          /\ UNCHANGED ti
    /\ UNCHANGED <<deals, di, scores, all_matches, all_contacts, contactRows, view, run,
                   baseM, baseC, refreshes, saveCalls>>
    /\ UNCHANGED <<apiVars, toolVars>>

\* save_matches: conn.commit(), which may raise.
CommitMatches ==
    /\ pc = "save_matches"
    /\ ti > Len(all_matches)
    /\ \/ /\ matchRows' = Committed(matchRows, tx)
          /\ pc' = AfterMatches(all_contacts)
          /\ UNCHANGED failure
       \/ /\ matchRows' = RolledBack(matchRows, tx)
          /\ pc' = "failed"
          /\ failure' = "match_commit"
    /\ tx' = <<>>
    /\ ti' = 1
    /\ UNCHANGED <<deals, di, scores, all_matches, all_contacts, contactRows, view, run,
                   baseM, baseC, refreshes, saveCalls>>
    /\ UNCHANGED <<apiVars, toolVars>>

\* save_contacts: one cur.execute(INSERT), which may raise.
InsertContact ==
    /\ pc = "save_contacts"
    /\ ti <= Len(all_contacts)
    /\ \/ /\ tx' = Append(tx, ContactRow(all_contacts[ti]))
          /\ ti' = ti + 1
          /\ UNCHANGED <<pc, failure, contactRows>>
       \/ /\ contactRows' = RolledBack(contactRows, tx)
          /\ tx' = <<>>
          /\ pc' = "failed"
          /\ failure' = "contact_insert"
          /\ UNCHANGED ti
    /\ UNCHANGED <<deals, di, scores, all_matches, all_contacts, matchRows, view, run,
                   baseM, baseC, refreshes, saveCalls>>
    /\ UNCHANGED <<apiVars, toolVars>>

\* save_contacts: conn.commit(), which may raise.
CommitContacts ==
    /\ pc = "save_contacts"
    /\ ti > Len(all_contacts)
    /\ \/ /\ contactRows' = Committed(contactRows, tx)
          /\ pc' = "refresh"
          /\ UNCHANGED failure
       \/ /\ contactRows' = RolledBack(contactRows, tx)
          /\ pc' = "failed"
          /\ failure' = "contact_commit"
    /\ tx' = <<>>
    /\ ti' = 1
    /\ UNCHANGED <<deals, di, scores, all_matches, all_contacts, matchRows, view, run,
                   baseM, baseC, refreshes, saveCalls>>
    /\ UNCHANGED <<apiVars, toolVars>>

\* refresh_enriched_view: REFRESH MATERIALIZED VIEW rebuilds the view from the
\* committed rows; it may raise.
RefreshView ==
    /\ pc = "refresh"
    /\ \/ /\ view' = matchRows
          /\ refreshes' = refreshes + 1
          /\ pc' = "done"
          /\ UNCHANGED failure
       \/ /\ pc' = "failed"
          /\ failure' = "refresh"
          /\ UNCHANGED <<view, refreshes>>
    /\ UNCHANGED <<deals, di, scores, all_matches, all_contacts, tx, ti, matchRows,
                   contactRows, run, baseM, baseC, saveCalls>>
    /\ UNCHANGED <<apiVars, toolVars>>

\* The process is killed: the server rolls the open transaction back.
Crash ==
    /\ Running
    /\ pc' = "crashed"
    /\ failure' = "crash"
    /\ tx' = <<>>
    /\ UNCHANGED <<deals, di, scores, all_matches, all_contacts, ti, matchRows,
                   contactRows, view, run, baseM, baseC, refreshes, saveCalls>>
    /\ UNCHANGED <<apiVars, toolVars>>

MNext ==
    \/ StartRun
    \/ ProcessDeal
    \/ EndLoop
    \/ InsertMatch
    \/ CommitMatches
    \/ InsertContact
    \/ CommitContacts
    \/ RefreshView
    \/ Crash



\* =========================================================== /api/deals
\* Optional values: None is Python's None / SQL NULL / an absent query
\* argument, Some(v) a value.  Unparsable is the raw text of a query argument
\* that its declared type (int, float) does not parse.
None == <<>>
Some(v) == <<v>>
Val(o) == o[1]
Unparsable == <<0, 0>>

\* ----------------------------------------------------------------- bounds
\* Rows of app.deals_enriched (and deals get_mock_deals returns).
MaxStore == 3
\* Largest page and page_size a request asks for.
MaxPage == 3
MaxPageSize == 3

\* ------------------------------------------------------ program constants
\* radius must be between 0 and 100 km.
MaxRadiusKm == 100
\* limit and page_size must be between 1 and 1000.
MaxPageSizeAllowed == 1000
\* request.args.get('limit', 100, type=int), ('page_size', 100, type=int).
DefaultLimit == 100
DefaultPageSize == 100
\* request.args.get('page', 1, type=int)
DefaultPage == 1
\* radius * 1000: kilometres to metres.
MetersPerKm == 1000

\* ------------------------------------------------------------- the data
\* A deal row.  lat is the row's position in whole kilometres along the
\* meridian of the query point; absent holds the keys a mock deal lacks.
DealKinds ==
    <<[source |-> "manual", match_score |-> Some(8000), lat |-> 0,
       city |-> <<"M", "a", "c", "o", "n">>, state |-> "GA", county |-> <<"B", "i", "b", "b">>,
       property_category |-> Some("residential"), property_type |-> Some("house"),
       bedrooms |-> Some(3), bathrooms |-> Some(2), square_feet |-> Some(1500),
       lot_size |-> Some(1), has_pool |-> Some(TRUE), has_gym |-> Some(FALSE),
       pet_friendly |-> Some(TRUE), crime_rate |-> Some("low"), flood_zone |-> Some("X"),
       school_rating |-> Some(8), sewage_system |-> Some("public"),
       on_market |-> Some(TRUE), absent |-> {}],
      [source |-> "csv", match_score |-> None, lat |-> 5,
       city |-> <<"R", "o", "m", "e">>, state |-> "GA", county |-> <<"F", "l", "o", "y", "d">>,
       property_category |-> Some("land"), property_type |-> None,
       bedrooms |-> None, bathrooms |-> None, square_feet |-> None,
       lot_size |-> None, has_pool |-> None, has_gym |-> None,
       pet_friendly |-> None, crime_rate |-> None, flood_zone |-> None,
       school_rating |-> None, sewage_system |-> None,
       on_market |-> None, absent |-> {"on_market", "bedrooms", "has_pool"}],
      [source |-> "manual", match_score |-> Some(5000), lat |-> 50,
       city |-> <<"M", "a", "c", "o", "n">>, state |-> "AL", county |-> <<"B", "i", "b", "b">>,
       property_category |-> Some("commercial"), property_type |-> Some("office"),
       bedrooms |-> Some(0), bathrooms |-> Some(0), square_feet |-> Some(0),
       lot_size |-> Some(0), has_pool |-> Some(FALSE), has_gym |-> Some(TRUE),
       pet_friendly |-> Some(FALSE), crime_rate |-> Some("high"), flood_zone |-> Some("AE"),
       school_rating |-> Some(0), sewage_system |-> Some("septic"),
       on_market |-> Some(FALSE), absent |-> {}],
      [source |-> "csv", match_score |-> Some(10000), lat |-> 200,
       city |-> <<"R", "o", "m", "e">>, state |-> "GA", county |-> <<"F", "l", "o", "y", "d">>,
       property_category |-> Some("residential"), property_type |-> Some("condo"),
       bedrooms |-> Some(5), bathrooms |-> Some(4), square_feet |-> Some(3000),
       lot_size |-> Some(3), has_pool |-> Some(TRUE), has_gym |-> Some(TRUE),
       pet_friendly |-> Some(TRUE), crime_rate |-> Some("low"), flood_zone |-> Some("X"),
       school_rating |-> Some(3), sewage_system |-> Some("public"),
       on_market |-> Some(TRUE), absent |-> {}]>>

\* The i-th deal, newest first: the kinds above in turn, priced 150 * i.
DealAt(i) ==
    [id |-> i, price |-> 150 * i] @@ DealKinds[((i - 1) % Len(DealKinds)) + 1]

\* The first n rows of app.deals_enriched: every selected column is a key of
\* the row (RealDictCursor), a NULL column has the value None.
DbRows(n) == [i \in 1..n |-> [DealAt(i) EXCEPT !.absent = {}]]

\* get_mock_deals(): a mock deal may lack keys.
get_mock_deals == [i \in 1..MaxStore |-> DealAt(i)]

\* ------------------------------------------------------------- requests
NoArgs ==
    [min_price |-> None, max_price |-> None, lat |-> None, lng |-> None,
     radius |-> None, source |-> None, min_score |-> None, limit |-> None,
     page |-> None, page_size |-> None, city |-> None, state |-> None,
     county |-> None, property_category |-> None, property_type |-> None,
     min_bedrooms |-> None, max_bedrooms |-> None, min_bathrooms |-> None,
     max_bathrooms |-> None, min_sqft |-> None, max_sqft |-> None,
     min_lot_size |-> None, max_lot_size |-> None, has_pool |-> None,
     has_gym |-> None, pet_friendly |-> None, crime_rate |-> None,
     flood_zone |-> None, min_school_rating |-> None, sewage_system |-> None,
     market_status |-> None]

Given(f, v) == f :> v

\* The location arguments of a request: none; a point with a radius of 10 km,
\* 0 km or 150 km; a radius without lng; a radius that does not parse.
GeoOptions ==
    {<<>>,
     Given("lat", Some(0)) @@ Given("lng", Some(0)) @@ Given("radius", Some(10)),
     Given("lat", Some(0)) @@ Given("lng", Some(0)) @@ Given("radius", Some(0)),
     Given("lat", Some(0)) @@ Given("lng", Some(0)) @@ Given("radius", Some(150)),
     Given("lat", Some(0)) @@ Given("radius", Some(10)),
     Given("lat", Some(0)) @@ Given("lng", Some(0)) @@ Given("radius", Unparsable)}

\* The paging arguments of a request.
PageOptions ==
    {<<>>}
    \cup {Given("page", Some(p)) @@ Given("page_size", Some(s)) :
              p \in 0..MaxPage, s \in 0..MaxPageSize}
    \cup {Given("page", Some(-1)), Given("page", Unparsable),
          Given("page_size", Some(MaxPageSizeAllowed + 1)),
          Given("page_size", Unparsable), Given("limit", Some(0))}

MinMax(lo, hi, los, his) ==
    {Given(lo, a) : a \in los} \cup {Given(hi, b) : b \in his}
    \cup {Given(lo, a) @@ Given(hi, b) : a \in los, b \in his}

\* The other arguments of a request: those of one filter.
FilterOptions ==
    {<<>>}
    \cup MinMax("min_price", "max_price", {Some(-1), Some(300)}, {Some(200), Some(450)})
    \cup MinMax("min_bedrooms", "max_bedrooms", {Some(1), Some(4)}, {Some(2), Unparsable})
    \cup MinMax("min_bathrooms", "max_bathrooms", {Some(1), Some(3)}, {Some(2)})
    \cup MinMax("min_sqft", "max_sqft", {Some(1000), Some(2000)}, {Some(1600)})
    \cup MinMax("min_lot_size", "max_lot_size", {Some(1), Some(3)}, {Some(2)})
    \cup {Given("min_school_rating", Some(5)), Given("min_score", Some(6000)),
          Given("min_score", Some(20000)),
          Given("source", Some("csv")), Given("state", Some("GA")),
          Given("city", Some(<<"m", "a", "c">>)), Given("county", Some(<<"O", "Y">>)),
          Given("property_category", Some("land")),
          Given("property_category", Some("castle")),
          Given("property_type", Some("house")),
          Given("has_pool", Some("true")), Given("has_gym", Some("true")),
          Given("pet_friendly", Some("yes")), Given("crime_rate", Some("low")),
          Given("flood_zone", Some("X")), Given("sewage_system", Some("septic")),
          Given("market_status", Some("on_market")),
          Given("market_status", Some("off_market")),
          Given("market_status", Some("sold"))}

\* The location and filter arguments of the requests that also page.
PagedGeoOptions ==
    {<<>>, Given("lat", Some(0)) @@ Given("lng", Some(0)) @@ Given("radius", Some(10))}

PagedFilterOptions ==
    {<<>>,
     Given("min_price", Some(300)) @@ Given("max_price", Some(450)),
     Given("min_bedrooms", Some(1))}

\* The requests: every location option with every filter option and the
\* default paging, and every paging option with a few of both.
Requests ==
    {f @@ g @@ NoArgs : g \in GeoOptions, f \in FilterOptions}
    \cup {f @@ p @@ g @@ NoArgs :
              g \in PagedGeoOptions, p \in PageOptions, f \in PagedFilterOptions}

\* ------------------------------------------------------------ get_deals
\* request.args.get(name, default, type=...): an absent argument and one that
\* the type does not parse both give the default.
ArgGet(raw, default) == IF raw = None \/ raw = Unparsable THEN default ELSE raw

\* Python truth of an optional number, string, text (a string kept as its
\* sequence of characters: city, county) and boolean.
TruthyNum(o) == o # None /\ Val(o) # 0
TruthyStr(o) == o # None /\ Val(o) # ""
TruthyText(o) == o # None /\ Val(o) # <<>>
TruthyBool(o) == o # None /\ Val(o)

\* The parameters get_deals reads from the query string.
ParseArgs(req) ==
    [min_price         |-> ArgGet(req.min_price, None),
     max_price         |-> ArgGet(req.max_price, None),
     lat               |-> ArgGet(req.lat, None),
     lng               |-> ArgGet(req.lng, None),
     radius            |-> ArgGet(req.radius, None),
     source            |-> req.source,
     min_score         |-> ArgGet(req.min_score, Some(0)),
     limit             |-> ArgGet(req.limit, Some(DefaultLimit)),
     page              |-> ArgGet(req.page, Some(DefaultPage)),
     page_size         |-> ArgGet(req.page_size, Some(DefaultPageSize)),
     city              |-> req.city,
     state             |-> req.state,
     county            |-> req.county,
     property_category |-> req.property_category,
     property_type     |-> req.property_type,
     min_bedrooms      |-> ArgGet(req.min_bedrooms, None),
     max_bedrooms      |-> ArgGet(req.max_bedrooms, None),
     min_bathrooms     |-> ArgGet(req.min_bathrooms, None),
     max_bathrooms     |-> ArgGet(req.max_bathrooms, None),
     min_sqft          |-> ArgGet(req.min_sqft, None),
     max_sqft          |-> ArgGet(req.max_sqft, None),
     min_lot_size      |-> ArgGet(req.min_lot_size, None),
     max_lot_size      |-> ArgGet(req.max_lot_size, None),
     has_pool          |-> req.has_pool = Some("true"),
     has_gym           |-> req.has_gym = Some("true"),
     pet_friendly      |-> req.pet_friendly = Some("true"),
     crime_rate        |-> req.crime_rate,
     flood_zone        |-> req.flood_zone,
     min_school_rating |-> ArgGet(req.min_school_rating, None),
     sewage_system     |-> req.sewage_system,
     market_status     |-> req.market_status]

Negative(o) == o # None /\ Val(o) < 0
InvertedIgnored(lo, hi) == FALSE

Inverted(lo, hi) == lo # None /\ hi # None /\ Val(lo) > Val(hi)
OutOf(o, lo, hi) == o # None /\ (Val(o) < lo \/ Val(o) > hi)

\* The validation checks of get_deals in the order it makes them, each with
\* the message of its 400 response.
ValidationChecks(a) ==
    <<<<Negative(a.min_price), "min_price must be non-negative">>,
      <<Negative(a.max_price), "max_price must be non-negative">>,
      <<Inverted(a.min_price, a.max_price), "min_price cannot be greater than max_price">>,
      <<OutOf(a.radius, 0, MaxRadiusKm), "radius must be between 0 and 100 km">>,
      <<OutOf(a.min_score, 0, ScoreOne), "min_score must be between 0 and 1">>,
      <<OutOf(a.limit, 1, MaxPageSizeAllowed), "limit must be between 1 and 1000">>,
      <<OutOf(a.page_size, 1, MaxPageSizeAllowed), "page_size must be between 1 and 1000">>,
      <<TruthyStr(a.property_category)
            /\ Val(a.property_category) \notin {"residential", "commercial", "land"},
        "property_category must be one of: residential, commercial, land">>,
      <<Negative(a.min_bedrooms), "min_bedrooms must be non-negative">>,
      <<Negative(a.max_bedrooms), "max_bedrooms must be non-negative">>,
      <<Inverted(a.min_bedrooms, a.max_bedrooms),
        "min_bedrooms cannot be greater than max_bedrooms">>,
      <<Negative(a.min_bathrooms), "min_bathrooms must be non-negative">>,
      <<Negative(a.max_bathrooms), "max_bathrooms must be non-negative">>,
      <<Inverted(a.min_bathrooms, a.max_bathrooms),
        "min_bathrooms cannot be greater than max_bathrooms">>,
      <<Negative(a.min_sqft), "min_sqft must be non-negative">>,
      <<Negative(a.max_sqft), "max_sqft must be non-negative">>,
      <<Inverted(a.min_sqft, a.max_sqft), "min_sqft cannot be greater than max_sqft">>,
      <<Negative(a.min_lot_size), "min_lot_size must be non-negative">>,
      <<Negative(a.max_lot_size), "max_lot_size must be non-negative">>,
      <<Inverted(a.min_lot_size, a.max_lot_size),
        "min_lot_size cannot be greater than max_lot_size">>,
      <<TruthyStr(a.market_status) /\ Val(a.market_status) \notin {"on_market", "off_market"},
        "market_status must be one of: on_market, off_market">>>>

\* The message of the first check that fails, "" when none does.
ValidationError(a) ==
    LET checks == ValidationChecks(a)
        failing == {i \in 1..Len(checks) : checks[i][1]}
    IN  IF failing = {} THEN ""
        ELSE checks[CHOOSE i \in failing : \A j \in failing : i <= j][2]

\* if not page or page < 1: page = 1; if not page_size or page_size < 1: page_size = 100
NormalisePaging(a) ==
    [a EXCEPT !.page = IF ~TruthyNum(@) \/ Val(@) < 1 THEN Some(DefaultPage) ELSE @,
              !.page_size = IF ~TruthyNum(@) \/ Val(@) < 1 THEN Some(DefaultPageSize) ELSE @]

\* deal.get(key, default)
Get(deal, key, default) == IF key \in deal.absent THEN default ELSE deal[key]

LowerOf == [M |-> "m", R |-> "r", B |-> "b", F |-> "f", O |-> "o", Y |-> "y"]
Lower(str) == [i \in 1..Len(str) |-> IF str[i] \in DOMAIN LowerOf THEN LowerOf[str[i]] ELSE str[i]]

\* sub in str
Contains(str, sub) ==
    \E i \in 0..(Len(str) - Len(sub)) : SubSeq(str, i + 1, i + Len(sub)) = sub

\* ST_DWithin(point(lng, lat), geom, meters): the row lies within that many
\* metres of the point, by the great-circle distance between them.
StDWithin(deal, lat, meters) == calculate_distance(lat * MetersPerKm, deal.lat * MetersPerKm) <= meters

GeoSupplied(a) == a.radius # None /\ a.lat # None /\ a.lng # None

\* The WHERE clause of location_query.
InAreaDb(deal, a) ==
    /\ GeoSupplied(a) => StDWithin(deal, Val(a.lat), Val(a.radius) * MetersPerKm)
    /\ TruthyText(a.city) => Contains(Lower(deal.city), Lower(Val(a.city)))
    /\ TruthyStr(a.state) => deal.state = Val(a.state)
    /\ TruthyText(a.county) => Contains(Lower(deal.county), Lower(Val(a.county)))

\* The mock path's location loop: city, state and county only.
InAreaMock(deal, a) ==
    /\ TruthyText(a.city) => Contains(Lower(Get(deal, "city", <<>>)), Lower(Val(a.city)))
    /\ TruthyStr(a.state) => Get(deal, "state", "") = Val(a.state)
    /\ TruthyText(a.county) => Contains(Lower(Get(deal, "county", <<>>)), Lower(Val(a.county)))

BelowMinNullFails(deal, key, lo) ==
    lo # None /\ (Get(deal, key, None) = None \/ Val(deal[key]) < Val(lo))

\* A bound "x is not None and deal.get(k) and deal[k] < x" (or > x) skips the deal.
BelowMin(deal, key, lo) ==
    lo # None /\ TruthyNum(Get(deal, key, None)) /\ Val(deal[key]) < Val(lo)
AboveMax(deal, key, hi) ==
    hi # None /\ TruthyNum(Get(deal, key, None)) /\ Val(deal[key]) > Val(hi)

\* The attribute stage keeps the deal: none of its "continue"s is taken.
PassesAttributes(deal, a) ==
    LET ms == IF TruthyNum(Get(deal, "match_score", None)) THEN Val(deal.match_score) ELSE 0
    IN
    /\ ~(a.min_price # None /\ deal.price < Val(a.min_price))
    /\ ~(a.max_price # None /\ deal.price > Val(a.max_price))
    /\ ~(TruthyStr(a.source) /\ deal.source # Val(a.source))
    /\ ~(a.min_score # None /\ Val(a.min_score) > 0 /\ ms < Val(a.min_score))
    /\ ~(TruthyStr(a.property_category)
            /\ Get(deal, "property_category", None) # a.property_category)
    /\ ~(TruthyStr(a.property_type) /\ Get(deal, "property_type", None) # a.property_type)
    /\ ~BelowMin(deal, "bedrooms", a.min_bedrooms)
    /\ ~AboveMax(deal, "bedrooms", a.max_bedrooms)
    /\ ~BelowMin(deal, "bathrooms", a.min_bathrooms)
    /\ ~AboveMax(deal, "bathrooms", a.max_bathrooms)
    /\ ~(a.min_sqft # None /\ Get(deal, "square_feet", None) # None
            /\ Val(deal.square_feet) < Val(a.min_sqft))
    /\ ~(a.max_sqft # None /\ Get(deal, "square_feet", None) # None
            /\ Val(deal.square_feet) > Val(a.max_sqft))
    /\ ~BelowMin(deal, "lot_size", a.min_lot_size)
    /\ ~AboveMax(deal, "lot_size", a.max_lot_size)
    /\ ~(a.has_pool /\ ~TruthyBool(Get(deal, "has_pool", Some(FALSE))))
    /\ ~(a.has_gym /\ ~TruthyBool(Get(deal, "has_gym", Some(FALSE))))
    /\ ~(a.pet_friendly /\ ~TruthyBool(Get(deal, "pet_friendly", Some(FALSE))))
    /\ ~(TruthyStr(a.crime_rate) /\ Get(deal, "crime_rate", None) # a.crime_rate)
    /\ ~(TruthyStr(a.flood_zone) /\ Get(deal, "flood_zone", None) # a.flood_zone)
    /\ ~BelowMin(deal, "school_rating", a.min_school_rating)
    /\ ~(TruthyStr(a.sewage_system) /\ Get(deal, "sewage_system", None) # a.sewage_system)
    /\ ~(TruthyStr(a.market_status)
            /\ \/ /\ Val(a.market_status) = "on_market"
                  /\ ~TruthyBool(Get(deal, "on_market", Some(FALSE)))
               \/ /\ Val(a.market_status) # "on_market"
                  /\ Val(a.market_status) = "off_market"
                  /\ TruthyBool(Get(deal, "on_market", Some(TRUE))))

\* The mock path's attribute loop repeats the database path's line for line.
PassesAttributesMock(deal, a) == PassesAttributes(deal, a)

SliceNewestLast(seq, start, end) ==
    LET part == SubSeq(seq, start + 1, Min(end, Len(seq)))
    IN  [k \in 1..Len(part) |-> part[Len(part) + 1 - k]]

SliceInclusiveEnd(seq, start, end) == SubSeq(seq, start + 1, Min(end + 1, Len(seq)))

\* seq[start:end] for 0 <= start
Slice(seq, start, end) == SubSeq(seq, start + 1, Min(end, Len(seq)))

HasMoreInclusive(end, total) == end <= total

\* 'has_more': end < total
HasMore(end, total) == end < total

StartOfNextPage(page, page_size) == page * page_size

\* start = max(0, (page - 1) * page_size)
StartOf(page, page_size) == Max(0, (page - 1) * page_size)

\* Pagination and the 200 response, the same on both paths.
DealsResponse(filtered_deals, a) ==
    LET total == Len(filtered_deals)
        start == StartOf(Val(a.page), Val(a.page_size))
        end == start + Val(a.page_size)
        page_deals == Slice(filtered_deals, start, end)
    IN  [status    |-> 200,
         deals     |-> page_deals,
         count     |-> Len(page_deals),
         total     |-> total,
         page      |-> Val(a.page),
         page_size |-> Val(a.page_size),
         has_more  |-> HasMore(end, total)]

InvalidParameter(message) ==
    [status |-> 400, error |-> "Invalid parameter", message |-> message]

\* The except branch of the database path.
QueryFailed(e) ==
    [status  |-> 500,
     error   |-> "Database query failed",
     message |-> "Unable to retrieve deals from database",
     details |-> IF debug THEN e ELSE "Internal server error"]

\* What an exception of the location query may say.
StorageErrors == {"connection reset", "relation does not exist"}

NoResponse == [status |-> 0]

ApiStart ==
    /\ hpc = "idle"
    /\ request = NoArgs
    /\ args = NoArgs
    /\ conn = "none"
    /\ in_area = <<>>
    /\ response = NoResponse
    /\ io = <<>>

\* A request arrives at the idle worker.
Receive(r) ==
    /\ hpc = "idle"
    /\ request' = r
    /\ hpc' = "validate"
    /\ args' = NoArgs
    /\ conn' = "none"
    /\ in_area' = <<>>
    /\ response' = NoResponse
    /\ io' = <<>>
    /\ UNCHANGED <<rows, debug>>
    /\ UNCHANGED <<matcherVars, toolVars>>

ValidateAfterConnect ==
    /\ hpc = "validate"
    /\ LET a == ParseArgs(request)
           message == ValidationError(a)
       IN  \/ /\ message # ""
              /\ response' = InvalidParameter(message)
              /\ hpc' = "sent"
              /\ conn' = "up"
              /\ io' = Append(io, "connect")
              /\ UNCHANGED args
           \/ /\ message = ""
              /\ args' = NormalisePaging(a)
              /\ hpc' = "connect"
              /\ UNCHANGED <<response, conn, io>>
    /\ UNCHANGED <<rows, debug, request, in_area>>
    /\ UNCHANGED <<matcherVars, toolVars>>

\* Parsing, validation and the paging defaults.
Validate ==
    /\ hpc = "validate"
    /\ LET a == ParseArgs(request)
           message == ValidationError(a)
       IN  \/ /\ message # ""
              /\ response' = InvalidParameter(message)
              /\ hpc' = "sent"
              /\ UNCHANGED args
           \/ /\ message = ""
              /\ args' = NormalisePaging(a)
              /\ hpc' = "connect"
              /\ UNCHANGED response
    /\ UNCHANGED <<rows, debug, request, conn, in_area, io>>
    /\ UNCHANGED <<matcherVars, toolVars>>

\* conn = get_db_connection(): a connection, or None when psycopg2 is missing
\* or connect raised.
Connect ==
    /\ hpc = "connect"
    /\ io' = Append(io, "connect")
    /\ \/ /\ conn' = "up"
          /\ hpc' = "query"
       \/ /\ conn' = "down"
          /\ hpc' = "mock"
    /\ UNCHANGED <<rows, debug, request, args, in_area, response>>
    /\ UNCHANGED <<matcherVars, toolVars>>

\* The database path: the location query, the attribute stage, pagination; an
\* exception anywhere in it gives the 500 response.
QueryDb ==
    /\ hpc = "query"
    /\ \/ /\ in_area' = SelectSeq(rows, LAMBDA deal : InAreaDb(deal, args))
          /\ response' = DealsResponse(
                 SelectSeq(in_area', LAMBDA deal : PassesAttributes(deal, args)), args)
          /\ io' = Append(io, "query")
       \/ /\ \E e \in StorageErrors : response' = QueryFailed(e)
          /\ io' = io \o <<"query", "raised">>
          /\ UNCHANGED in_area
    /\ hpc' = "sent"
    /\ UNCHANGED <<rows, debug, request, args, conn>>
    /\ UNCHANGED <<matcherVars, toolVars>>

\* The mock path: get_mock_deals, the location loop, the attribute loop,
\* pagination.
ServeMock ==
    /\ hpc = "mock"
    /\ io' = Append(io, "mock")
    /\ in_area' = SelectSeq(get_mock_deals, LAMBDA deal : InAreaMock(deal, args))
    /\ response' = DealsResponse(
           SelectSeq(in_area', LAMBDA deal : PassesAttributesMock(deal, args)), args)
    /\ hpc' = "sent"
    /\ UNCHANGED <<rows, debug, request, args, conn>>
    /\ UNCHANGED <<matcherVars, toolVars>>

\* The response is on its way: the handler's locals are gone and the worker is
\* idle again.
Finish ==
    /\ hpc = "sent"
    /\ hpc' = "idle"
    /\ request' = NoArgs
    /\ args' = NoArgs
    /\ conn' = "none"
    /\ in_area' = <<>>
    /\ response' = NoResponse
    /\ io' = <<>>
    /\ UNCHANGED <<rows, debug>>
    /\ UNCHANGED <<matcherVars, toolVars>>

ANext ==
    \/ \E r \in Requests : Receive(r)
    \/ Validate
    \/ Connect
    \/ QueryDb
    \/ ServeMock
    \/ Finish

\* ================================================ a reader beside the Matcher
ConcStart ==
    /\ viewLock = "none"
    /\ rpc = "idle"
    /\ seen = <<>>
    /\ viewHistory = <<<<>>>>

\* refresh_enriched_view, seen from other sessions: REFRESH MATERIALIZED VIEW
\* without CONCURRENTLY holds an ACCESS EXCLUSIVE lock on the view from its
\* start until its transaction ends.
BeginRefresh ==
    /\ pc = "refresh"
    /\ viewLock = "none"
    /\ viewLock' = "refresh"
    /\ pc' = "refreshing"
    /\ UNCHANGED <<deals, di, scores, all_matches, all_contacts, tx, ti, matchRows,
                   contactRows, view, run, baseM, baseC, refreshes, saveCalls, failure>>
    /\ UNCHANGED <<rpc, seen, viewHistory>>
    /\ UNCHANGED <<apiVars, schedVars, migVars, bulkVars>>

\* The refresh ends: conn.commit() publishes the rebuilt view and releases
\* the lock; or the statement or the commit raised, or the process was
\* killed, and the view stays as it was.
EndRefresh ==
    /\ pc = "refreshing"
    /\ viewLock' = "none"
    /\ \/ /\ view' = matchRows
          /\ viewHistory' = Append(viewHistory, matchRows)
          /\ refreshes' = refreshes + 1
          /\ pc' = "done"
          /\ UNCHANGED failure
       \/ /\ pc' = "failed"
          /\ failure' = "refresh"
          /\ UNCHANGED <<view, viewHistory, refreshes>>
    /\ UNCHANGED <<deals, di, scores, all_matches, all_contacts, tx, ti, matchRows,
                   contactRows, run, baseM, baseC, saveCalls>>
    /\ UNCHANGED <<rpc, seen>>
    /\ UNCHANGED <<apiVars, schedVars, migVars, bulkVars>>

\* get_deals runs location_query on app.deals_enriched: the SELECT needs an
\* ACCESS SHARE lock, which it gets at once unless the refresh holds its
\* lock, and then it waits.
ReadView ==
    /\ rpc = "idle"
    /\ \/ /\ viewLock = "none"
          /\ seen' = view
          /\ rpc' = "done"
       \/ /\ viewLock # "none"
          /\ rpc' = "waiting"
          /\ UNCHANGED seen
    /\ UNCHANGED <<viewLock, viewHistory>>
    /\ UNCHANGED <<matcherVars, apiVars, schedVars, migVars, bulkVars>>

\* The lock is released: the waiting SELECT runs.
ResumeRead ==
    /\ rpc = "waiting"
    /\ viewLock = "none"
    /\ seen' = view
    /\ rpc' = "done"
    /\ UNCHANGED <<viewLock, viewHistory>>
    /\ UNCHANGED <<matcherVars, apiVars, schedVars, migVars, bulkVars>>

\* The reader's next request.
NextRead ==
    /\ rpc = "done"
    /\ rpc' = "idle"
    /\ UNCHANGED <<viewLock, seen, viewHistory>>
    /\ UNCHANGED <<matcherVars, apiVars, schedVars, migVars, bulkVars>>

CNext ==
    \/ StartRun
    \/ ProcessDeal
    \/ EndLoop
    \/ InsertMatch
    \/ CommitMatches
    \/ InsertContact
    \/ CommitContacts
    \/ Crash
    \/ BeginRefresh
    \/ EndRefresh
    \/ ReadView
    \/ ResumeRead
    \/ NextRead

\* ================================================== DataRefreshScheduler
\* Scheduler processes started in one behaviour.
MaxInvocations == 2

\* The calendar: a year of 365 days that starts on a Monday; the day of the
\* year on which each month starts.
MonthStarts == <<0, 31, 59, 90, 120, 151, 181, 212, 243, 273, 304, 334>>

DayOf(t) == t \div 24
HourOf(t) == t % 24
YearOf(t) == DayOf(t) \div 365
MonthOf(t) == Cardinality({m \in 1..12 : MonthStarts[m] <= DayOf(t) % 365})
\* datetime.weekday(): Monday is 0.
WeekdayOf(t) == DayOf(t) % 7
\* datetime(year, month, day, hour, 0, 0)
Datetime(year, month, day, hour) == (year * 365 + MonthStarts[month] + day - 1) * 24 + hour
\* t.replace(hour=hour, minute=0, second=0, microsecond=0)
ReplaceHour(t, hour) == DayOf(t) * 24 + hour

\* A value of next_run / last_run: None, a datetime, or the string that
\* json.dump(default=str) wrote for a datetime.
Dt(t) == <<"datetime", t>>
Str(t) == <<"str", t>>
\* str(value) of json.dump's default, applied to what json cannot encode.
JsonValue(v) == IF v # None /\ v[1] = "datetime" THEN Str(v[2]) ELSE v
\* datetime.fromisoformat(text)
fromisoformat(v) == Dt(v[2])

\* The jobs of REFRESH_SCHEDULES the model follows, in the dict's order: one
\* of each frequency.
JobKeys == <<"ga_gio_parcels", "county_tax_assessors", "fema_flood", "ga_doe_schools">>
JobSet == {JobKeys[k] : k \in 1..Len(JobKeys)}

\* REFRESH_SCHEDULES as the module defines it.
DefaultSchedules ==
    [key \in JobSet |->
        [frequency |-> CASE key = "ga_gio_parcels" -> "weekly"
                         [] key = "county_tax_assessors" -> "daily"
                         [] key = "fema_flood" -> "monthly"
                         [] OTHER -> "quarterly",
         next_run  |-> None,
         last_run  |-> None,
         status    |-> "pending"]]

\* First day of next month at 4 AM.
NextMonthStart(t) ==
    IF MonthOf(t) = 12 THEN Datetime(YearOf(t) + 1, 1, 1, 4)
    ELSE Datetime(YearOf(t), MonthOf(t) + 1, 1, 4)

\* First day of next quarter at 5 AM.
NextQuarterStart(t) ==
    LET current_quarter == (MonthOf(t) - 1) \div 3 + 1
    IN  IF current_quarter = 4 THEN Datetime(YearOf(t) + 1, 1, 1, 5)
        ELSE Datetime(YearOf(t), current_quarter * 3 + 1, 1, 5)

\* initialize_schedule: the next_run given to a job that has none.
InitialNextRun(frequency, t) ==
    CASE frequency = "daily" -> ReplaceHour(t, 2)
      [] frequency = "weekly" ->
             LET days_until_sunday == (6 - WeekdayOf(t)) % 7
             IN  ReplaceHour(t + 24 * (IF days_until_sunday = 0 THEN 7 ELSE days_until_sunday),
                             3)
      [] frequency = "monthly" -> NextMonthStart(t)
      [] OTHER -> NextQuarterStart(t)

initialize_schedule(schedules, t) ==
    [key \in DOMAIN schedules |->
        IF schedules[key].next_run = None
        THEN [schedules[key] EXCEPT !.next_run = Dt(InitialNextRun(schedules[key].frequency, t))]
        ELSE schedules[key]]

\* load_schedule: the saved entries replace the module's.
load_schedule(file) == IF file = None THEN DefaultSchedules ELSE file

\* save_schedule: json.dump(REFRESH_SCHEDULES, default=str)
save_schedule(schedules) ==
    [key \in DOMAIN schedules |->
        [schedules[key] EXCEPT !.next_run = JsonValue(@), !.last_run = JsonValue(@)]]

is_time_to_run(schedule, t) ==
    IF schedule.next_run = None THEN FALSE
    ELSE LET next_run == IF schedule.next_run[1] = "str"
                         THEN fromisoformat(schedule.next_run)
                         ELSE schedule.next_run
         IN  t >= next_run[2]

NextRunAfterSameTime(frequency, t) == t

\* update_schedule_after_run: the next run time.
NextRunAfter(frequency, t) ==
    CASE frequency = "daily" -> t + 24
      [] frequency = "weekly" -> t + 24 * 7
      [] frequency = "monthly" -> NextMonthStart(t)
      [] OTHER -> NextQuarterStart(t)

update_schedule_after_run(schedule, ok, t) ==
    [schedule EXCEPT !.last_run = Dt(t),
                     !.status = IF ok THEN "success" ELSE "failed",
                     !.next_run = Dt(NextRunAfter(schedule.frequency, t))]

\* When the first scheduler process may start: Sunday 30 December, 10:00,
\* and Thursday 10 May, 01:00.
StartTimes == {Datetime(0, 12, 30, 10), Datetime(0, 5, 10, 1)}

\* Hours between the end of one scheduler process and the start of the next:
\* none, a day, a week, a month and a day.
Waits == {0, 24, 24 * 7, 24 * 32}

\* Hours a script may take, to the whole hour: its timeout is one hour.
ScriptHours == {0, 1}

SchedStart ==
    /\ now \in StartTimes
    /\ schedule_file = None
    /\ REFRESH_SCHEDULES = DefaultSchedules
    /\ spc = "off"
    /\ skey = 1
    /\ success = FALSE
    /\ jobs_run = 0
    /\ invocation = 0
    /\ runLog = <<>>

\* main: a new process imports the module, DataRefreshScheduler.__init__
\* loads, initializes and saves the schedule, and run_scheduled_jobs starts.
StartScheduler(wait) ==
    /\ spc = "off"
    /\ invocation < MaxInvocations
    /\ invocation' = invocation + 1
    /\ now' = now + wait
    /\ REFRESH_SCHEDULES' = initialize_schedule(load_schedule(schedule_file), now')
    /\ schedule_file' = save_schedule(REFRESH_SCHEDULES')
    /\ spc' = "check"
    /\ skey' = 1
    /\ jobs_run' = 0
    /\ UNCHANGED <<success, runLog>>
    /\ UNCHANGED <<matcherVars, apiVars, concVars, migVars, bulkVars>>

\* run_scheduled_jobs: "if self.is_time_to_run(schedule_key)" for the next job.
CheckJob ==
    /\ spc = "check"
    /\ skey <= Len(JobKeys)
    /\ IF is_time_to_run(REFRESH_SCHEDULES[JobKeys[skey]], now)
       THEN /\ spc' = "script"
            /\ runLog' = Append(runLog,
                   [key |-> JobKeys[skey], invocation |-> invocation, checked |-> now,
                    due |-> REFRESH_SCHEDULES[JobKeys[skey]].next_run[2],
                    ran |-> -1, next_run |-> -1])
            /\ UNCHANGED skey
       ELSE /\ skey' = skey + 1
            /\ UNCHANGED <<spc, runLog>>
    /\ UNCHANGED <<now, schedule_file, REFRESH_SCHEDULES, success, jobs_run, invocation>>
    /\ UNCHANGED <<matcherVars, apiVars, concVars, migVars, bulkVars>>

\* run_script: the script runs for up to an hour and succeeds or fails (a
\* missing script, a non-zero exit, a timeout and an exception all return
\* False).
RunScript(hours, ok) ==
    /\ spc = "script"
    /\ now' = now + hours
    /\ success' = ok
    /\ spc' = "update"
    /\ UNCHANGED <<schedule_file, REFRESH_SCHEDULES, skey, jobs_run, invocation, runLog>>
    /\ UNCHANGED <<matcherVars, apiVars, concVars, migVars, bulkVars>>

\* update_schedule_after_run with its save_schedule, jobs_run += 1, and the
\* loop moves on.
UpdateSchedule ==
    /\ spc = "update"
    /\ REFRESH_SCHEDULES' =
           [REFRESH_SCHEDULES EXCEPT
                ![JobKeys[skey]] = update_schedule_after_run(@, success, now)]
    /\ schedule_file' = save_schedule(REFRESH_SCHEDULES')
    /\ jobs_run' = jobs_run + 1
    /\ runLog' = [runLog EXCEPT ![Len(runLog)] =
                     [@ EXCEPT !.ran = now,
                               !.next_run = REFRESH_SCHEDULES'[JobKeys[skey]].next_run[2]]]
    /\ skey' = skey + 1
    /\ spc' = "check"
    /\ UNCHANGED <<now, success, invocation>>
    /\ UNCHANGED <<matcherVars, apiVars, concVars, migVars, bulkVars>>

\* run_scheduled_jobs returns and the process ends.
EndScheduler ==
    /\ spc = "check"
    /\ skey > Len(JobKeys)
    /\ spc' = "off"
    /\ UNCHANGED <<now, schedule_file, REFRESH_SCHEDULES, skey, success, jobs_run,
                   invocation, runLog>>
    /\ UNCHANGED <<matcherVars, apiVars, concVars, migVars, bulkVars>>

SNext ==
    \/ \E wait \in Waits : StartScheduler(wait)
    \/ CheckJob
    \/ \E hours \in ScriptHours, ok \in BOOLEAN : RunScript(hours, ok)
    \/ UpdateSchedule
    \/ EndScheduler

\* The scheduler is not running, at one of its start times.
SchedIdle ==
    /\ now = Datetime(0, 5, 10, 1)
    /\ schedule_file = None
    /\ REFRESH_SCHEDULES = DefaultSchedules
    /\ spc = "off"
    /\ skey = 1
    /\ success = FALSE
    /\ jobs_run = 0
    /\ invocation = 0
    /\ runLog = <<>>

\* ==================================================== the migration runners
\* Files in the sql directory, named so that file k sorts k-th.
MaxMigrations == 2
\* Runs of a migration runner in one behaviour.
MaxMigrationRuns == 3

MigStart ==
    /\ mpc = "off"
    /\ mfile = 1
    /\ mtx = <<>>
    /\ applied = <<>>
    /\ recorded = {}
    /\ tableKind = "none"
    /\ mruns = 0

\* handler / run_migrations_if_any: ensure_migrations_table creates the
\* table (id TEXT) if there is none and commits.
StartLambda ==
    /\ mpc = "off"
    /\ mruns < MaxMigrationRuns
    /\ mruns' = mruns + 1
    /\ tableKind' = IF tableKind = "none" THEN "lambda" ELSE tableKind
    /\ mpc' = "lambda_check"
    /\ mfile' = 1
    /\ mtx' = <<>>
    /\ UNCHANGED <<applied, recorded>>
    /\ UNCHANGED <<matcherVars, apiVars, concVars, schedVars, bulkVars>>

\* The loop over sorted(sql_dir.glob("*.sql")): has_run(conn, mid).  Against the
\* table of setup_database (id SERIAL, filename) the query on id raises.
LambdaCheck ==
    /\ mpc = "lambda_check"
    /\ IF mfile > MaxMigrations \/ tableKind # "lambda"
       THEN mpc' = "off" /\ UNCHANGED mfile
       ELSE IF mfile \in recorded
            THEN mfile' = mfile + 1 /\ UNCHANGED mpc
            ELSE mpc' = "lambda_apply" /\ UNCHANGED mfile
    /\ UNCHANGED <<mtx, applied, recorded, tableKind, mruns>>
    /\ UNCHANGED <<matcherVars, apiVars, concVars, schedVars, bulkVars>>

\* cur.execute(stmt) for the file's statements, then conn.commit(); a
\* statement or the commit may raise, which ends the run with the
\* transaction rolled back.
LambdaApply ==
    /\ mpc = "lambda_apply"
    /\ \/ /\ mtx = <<>>
          /\ mtx' = <<mfile>>
          /\ UNCHANGED <<mpc, applied>>
       \/ /\ mtx # <<>>
          /\ applied' = applied \o mtx
          /\ mtx' = <<>>
          /\ mpc' = "lambda_record"
       \/ /\ mtx' = <<>>
          /\ mpc' = "off"
          /\ UNCHANGED applied
    /\ UNCHANGED <<mfile, recorded, tableKind, mruns>>
    /\ UNCHANGED <<matcherVars, apiVars, concVars, schedVars, bulkVars>>

\* INSERT INTO schema_migrations(id) and conn.commit(), in a transaction of
\* their own; they may raise.
LambdaRecord ==
    /\ mpc = "lambda_record"
    /\ \/ /\ recorded' = recorded \cup {mfile}
          /\ mfile' = mfile + 1
          /\ mpc' = "lambda_check"
       \/ /\ mpc' = "off"
          /\ UNCHANGED <<recorded, mfile>>
    /\ UNCHANGED <<mtx, applied, tableKind, mruns>>
    /\ UNCHANGED <<matcherVars, apiVars, concVars, schedVars, bulkVars>>

\* setup_database: one connection, one transaction; CREATE TABLE IF NOT
\* EXISTS schema_migrations (id SERIAL, filename) is its first statement.
StartSetup ==
    /\ mpc = "off"
    /\ mruns < MaxMigrationRuns
    /\ mruns' = mruns + 1
    /\ mpc' = "setup_check"
    /\ mfile' = 1
    /\ mtx' = <<>>
    /\ UNCHANGED <<applied, recorded, tableKind>>
    /\ UNCHANGED <<matcherVars, apiVars, concVars, schedVars, bulkVars>>

\* The loop over sql_files: the SELECT on filename (which raises against the
\* lambda's table), the file's statements and the INSERT of its record, all
\* in the open transaction; an exception rolls everything back.
SetupCheck ==
    /\ mpc = "setup_check"
    /\ mfile <= MaxMigrations
    /\ \/ /\ tableKind # "lambda"
          /\ mfile \in recorded
          /\ mfile' = mfile + 1
          /\ UNCHANGED <<mpc, mtx>>
       \/ /\ tableKind # "lambda"
          /\ mfile \notin recorded
          /\ mtx' = Append(mtx, mfile)
          /\ mfile' = mfile + 1
          /\ UNCHANGED mpc
       \/ /\ tableKind = "lambda" \/ mfile \notin recorded
          /\ mtx' = <<>>
          /\ mpc' = "off"
          /\ UNCHANGED mfile
    /\ UNCHANGED <<applied, recorded, tableKind, mruns>>
    /\ UNCHANGED <<matcherVars, apiVars, concVars, schedVars, bulkVars>>

\* conn.commit() after the loop: the table, the statements and the records
\* become visible together; or the commit raises and all is rolled back.
SetupCommit ==
    /\ mpc = "setup_check"
    /\ mfile > MaxMigrations
    /\ \/ /\ applied' = applied \o mtx
          /\ recorded' = recorded \cup {mtx[k] : k \in 1..Len(mtx)}
          /\ tableKind' = IF tableKind = "none" THEN "setup" ELSE tableKind
       \/ UNCHANGED <<applied, recorded, tableKind>>
    /\ mtx' = <<>>
    /\ mpc' = "off"
    /\ UNCHANGED <<mfile, mruns>>
    /\ UNCHANGED <<matcherVars, apiVars, concVars, schedVars, bulkVars>>

\* The run is interrupted (the Lambda times out, the process is killed): the
\* server rolls the open transaction back.
InterruptMigration ==
    /\ mpc # "off"
    /\ mpc' = "off"
    /\ mtx' = <<>>
    /\ UNCHANGED <<mfile, applied, recorded, tableKind, mruns>>
    /\ UNCHANGED <<matcherVars, apiVars, concVars, schedVars, bulkVars>>

GNext ==
    \/ StartLambda
    \/ LambdaCheck
    \/ LambdaApply
    \/ LambdaRecord
    \/ StartSetup
    \/ SetupCheck
    \/ SetupCommit
    \/ InterruptMigration

\* ================================================= bulk_insert_properties
\* Longest list of properties imported, and largest batch_size.
MaxProperties == 3
MaxBatchSize == 2

\* A record to import: valid tells whether it has every required field with
\* numeric price, lat and lng.
PropertyKinds(n) == {[id |-> n, valid |-> v] : v \in BOOLEAN}

RECURSIVE PropertyLists(_)
\* The lists of n records, record k with id k.
PropertyLists(n) ==
    IF n = 0 THEN {<<>>}
    ELSE {Append(l, prop) : l \in PropertyLists(n - 1), prop \in PropertyKinds(n)}

validate_property(prop) == prop.valid

\* normalize_property fills defaults in; it keeps the record's identity.
normalize_property(prop) == prop

\* properties[i:i + batch_size]
BatchAt(i) == SubSeq(properties, i + 1, Min(i + batch_size, Len(properties)))

\* The i of every batch of range(0, total_processed, batch_size).
BatchStarts == {i \in 0..Len(properties) - 1 : i % batch_size = 0}

BulkInputs ==
    /\ properties \in UNION {PropertyLists(n) : n \in 0..MaxProperties}
    /\ batch_size \in 1..MaxBatchSize

BulkRest ==
    /\ bpc = "batch"
    /\ bi = 0
    /\ valid_properties = <<>>
    /\ bk = 1
    /\ bpending = <<>>
    /\ stored = <<>>
    /\ total_inserted = 0
    /\ bconn = "open"
    /\ result = None
    /\ processed = {}

\* No import: an empty list.
BulkStart ==
    /\ properties = <<>>
    /\ batch_size = 1
    /\ BulkRest

\* The except branch of the batch: self.conn.rollback() and continue.  On a
\* connection that is lost rollback itself raises, out of the function.
BatchFailed ==
    /\ bpending' = <<>>
    /\ valid_properties' = <<>>
    /\ bk' = 1
    /\ IF bconn' = "open"
       THEN bi' = bi + batch_size /\ bpc' = "batch"
       ELSE bpc' = "raised" /\ UNCHANGED bi

\* The head of the loop body: validate and normalize the batch; a batch with
\* no valid property is skipped.
StartBatch ==
    /\ bpc = "batch"
    /\ bi < Len(properties)
    /\ processed' = processed \cup {bi}
    /\ LET valid == SelectSeq(BatchAt(bi), validate_property)
       IN  IF valid = <<>>
           THEN /\ bi' = bi + batch_size
                /\ UNCHANGED <<bpc, valid_properties, bk>>
           ELSE /\ valid_properties' = [k \in 1..Len(valid) |-> normalize_property(valid[k])]
                /\ bk' = 1
                /\ bpc' = "insert"
                /\ UNCHANGED bi
    /\ UNCHANGED <<properties, batch_size, bpending, stored, total_inserted, bconn, result>>
    /\ UNCHANGED <<matcherVars, apiVars, concVars, schedVars, migVars>>

\* self.insert_property(prop): the two INSERTs succeed, or one raises (the
\* server rejects the row, or the connection is lost).
InsertProperty ==
    /\ bpc = "insert"
    /\ bk <= Len(valid_properties)
    /\ \/ /\ bpending' = Append(bpending, valid_properties[bk])
          /\ bk' = bk + 1
          /\ UNCHANGED <<bpc, bi, valid_properties, bconn>>
       \/ /\ bconn' \in {"open", "lost"}
          /\ BatchFailed
    /\ UNCHANGED <<properties, batch_size, stored, total_inserted, result, processed>>
    /\ UNCHANGED <<matcherVars, apiVars, concVars, schedVars, migVars>>

\* self.conn.commit() and total_inserted += inserted_in_batch; or the commit
\* raises.
CommitBatch ==
    /\ bpc = "insert"
    /\ bk > Len(valid_properties)
    /\ \/ /\ stored' = stored \o bpending
          /\ total_inserted' = total_inserted + Len(valid_properties)
          /\ bpending' = <<>>
          /\ valid_properties' = <<>>
          /\ bk' = 1
          /\ bi' = bi + batch_size
          /\ bpc' = "batch"
          /\ UNCHANGED bconn
       \/ /\ bconn' \in {"open", "lost"}
          /\ BatchFailed
          /\ UNCHANGED <<stored, total_inserted>>
    /\ UNCHANGED <<properties, batch_size, result, processed>>
    /\ UNCHANGED <<matcherVars, apiVars, concVars, schedVars, migVars>>

\* return total_inserted
ReturnTotal ==
    /\ bpc = "batch"
    /\ bi >= Len(properties)
    /\ result' = Some(total_inserted)
    /\ bpc' = "returned"
    /\ UNCHANGED <<properties, batch_size, bi, valid_properties, bk, bpending, stored,
                   total_inserted, bconn, processed>>
    /\ UNCHANGED <<matcherVars, apiVars, concVars, schedVars, migVars>>

BNext ==
    \/ StartBatch
    \/ InsertProperty
    \/ CommitBatch
    \/ ReturnTotal

ToolStart == ConcStart /\ SchedIdle /\ MigStart /\ BulkStart

\* ------------------------------------------------------- specifications
\* The Matcher, with no request to /api/deals in flight.
Init ==
    /\ deals \in Batches
    /\ MatcherStart
    /\ rows = DbRows(0)
    /\ debug = FALSE
    /\ ApiStart
    /\ ToolStart

Spec == Init /\ [][MNext]_vars

\* /api/deals over a store of up to MaxStore rows, with no Matcher run.
ApiInit ==
    /\ deals = <<>>
    /\ MatcherStart
    /\ rows \in {DbRows(n) : n \in 0..MaxStore}
    /\ debug \in BOOLEAN
    /\ ApiStart
    /\ ToolStart

SpecApi == ApiInit /\ [][ANext]_vars

\* The Matcher with a reader of app.deals_enriched beside it.
SpecConc == Init /\ [][CNext]_vars

\* The scheduler's processes, one after the other.
SchedInit ==
    /\ deals = <<>>
    /\ MatcherStart
    /\ rows = DbRows(0)
    /\ debug = FALSE
    /\ ApiStart
    /\ ConcStart
    /\ SchedStart
    /\ MigStart
    /\ BulkStart

SpecSched == SchedInit /\ [][SNext]_vars

\* Runs of the two migration runners, one after the other.
MigInit ==
    /\ deals = <<>>
    /\ MatcherStart
    /\ rows = DbRows(0)
    /\ debug = FALSE
    /\ ApiStart
    /\ ToolStart

SpecMig == MigInit /\ [][GNext]_vars

\* One call of bulk_insert_properties.
BulkInit ==
    /\ deals = <<>>
    /\ MatcherStart
    /\ rows = DbRows(0)
    /\ debug = FALSE
    /\ ApiStart
    /\ ConcStart
    /\ SchedIdle
    /\ MigStart
    /\ BulkInputs
    /\ BulkRest

SpecBulk == BulkInit /\ [][BNext]_vars

\* ------------------------------------------------------ claims: the Matcher
\* The pairs (deal_id, zillow_id) of the match rows the current run committed.
RunMatchRows == SubSeq(matchRows, baseM + 1, Len(matchRows))
RunContactRows == SubSeq(contactRows, baseC + 1, Len(contactRows))

SamePair(a, b) == a.deal_id = b.deal_id /\ a.zillow_id = b.zillow_id

\* C1: every persisted Match row has a score s with 0.5 <= s <= 1, also while
\* it is only pending in a transaction or collected in all_matches, and every
\* value calculate_match_score returns lies in [0, 1].
C1_PersistedScoresInRange ==
    /\ \A i \in 1..Len(matchRows) :
           Threshold <= matchRows[i].match_score /\ matchRows[i].match_score <= ScoreOne
    /\ \A i \in 1..Len(all_matches) :
           Threshold <= all_matches[i].score /\ all_matches[i].score <= ScoreOne
    /\ \A k \in 1..Len(scores) : 0 <= scores[k] /\ scores[k] <= ScoreOne

\* C1 witness: a second run has committed a row scoring exactly 0.5 and a row
\* scoring 1.0 after a loop in which a listing scored below 0.5.
C1_Witness ==
    /\ run = 2
    /\ \E i \in baseM + 1..Len(matchRows) : matchRows[i].match_score = Threshold
    /\ \E i \in baseM + 1..Len(matchRows) : matchRows[i].match_score = ScoreOne
    /\ \E k \in 1..Len(scores) : scores[k] < Threshold

\* C2 (as claimed): the store never holds two Match rows for one
\* (deal_id, candidate_id) pair, however often the Matcher runs over the batch.
C2_NoDuplicateMatchRows ==
    \A i, j \in 1..Len(matchRows) : SamePair(matchRows[i], matchRows[j]) => i = j

\* C3 (as claimed): a failed candidate lookup for one deal does not end the
\* run: the run is never in its failed state because of a lookup.
C3_LookupFailureDoesNotAbort == failure = "lookup" => pc # "failed"

\* C4 (as claimed): once a run has ended, every Match row it committed for a
\* pair whose Contact it collected has that pair's Contact row committed too.
C4_MatchAndContactTogether ==
    Ended =>
        \A i \in 1..Len(RunMatchRows) :
            (\E k \in 1..Len(all_contacts) : SamePair(all_contacts[k], RunMatchRows[i]))
                => \E j \in 1..Len(RunContactRows) :
                       SamePair(RunContactRows[j], RunMatchRows[i])

\* C5: when an INSERT of save_matches has failed, the run is over as failed,
\* save_matches was called once, no Match row and no Contact row of the run is
\* committed, nothing is pending and the view was not refreshed.
C5_MatchInsertFailureIsFatal ==
    failure = "match_insert" =>
        /\ pc = "failed"
        /\ saveCalls = 1
        /\ Len(matchRows) = baseM
        /\ Len(contactRows) = baseC
        /\ tx = <<>>
        /\ refreshes = 0

\* C5 witness: the INSERT of the second row failed after the first was executed.
C5_Witness ==
    /\ failure = "match_insert"
    /\ ti = 2
    /\ Len(all_matches) >= 2
    /\ pc = "failed"

\* C6: a run is completed exactly when refresh_enriched_view has returned
\* once, and at that point every Match and Contact row the run collected is
\* committed, nothing is pending, and the view shows the committed rows.
C6_RefreshOnceAfterWrites ==
    /\ refreshes <= 1
    /\ pc = "done" <=> refreshes = 1
    /\ refreshes = 1 =>
           /\ RunMatchRows = [k \in 1..Len(all_matches) |-> MatchRow(all_matches[k])]
           /\ RunContactRows = [k \in 1..Len(all_contacts) |-> ContactRow(all_contacts[k])]
           /\ tx = <<>>
           /\ view = matchRows

\* C6 witness: a completed run that wrote two matches and their contacts.
C6_Witness ==
    /\ pc = "done"
    /\ refreshes = 1
    /\ Len(RunMatchRows) = 2
    /\ Len(RunContactRows) = 2

\* C6, the other case: a completed run over a deal none of whose listings
\* was accepted.
C6_NoMatchRunReached ==
    /\ pc = "done"
    /\ refreshes = 1
    /\ Len(deals) > 0
    /\ all_matches = <<>>

\* ------------------------------------------------------ claims: /api/deals
Answered == hpc = "sent" /\ response.status = 200

Did(event) == \E k \in 1..Len(io) : io[k] = event

\* C7 (as claimed): when lat, lng and radius are all supplied, every deal of
\* the location stage's result lies within radius km of the point, on the
\* database path and on the mock path.
C7_RadiusKeepsFarDealsOut ==
    (Answered /\ GeoSupplied(args)) =>
        \A i \in 1..Len(in_area) :
            StDWithin(in_area[i], Val(args.lat), Val(args.radius) * MetersPerKm)

\* C8 (as claimed): a request for which the connection could not be
\* established, or whose query raised, is answered with the query-failed
\* error, never with a deals result.
C8_StorageFailureIsQueryFailed ==
    (hpc = "sent" /\ (conn = "down" \/ Did("raised"))) =>
        /\ response.status = 500
        /\ response.error = "Database query failed"

\* C9: in every deals response, total is the number of deals of the location
\* stage's result that pass every attribute predicate, and count is
\* min(page_size, total - (page-1)*page_size) when (page-1)*page_size < total
\* and 0 otherwise.
C9_CountAndTotal ==
    Answered =>
        LET total == response.total
            skipped == (response.page - 1) * response.page_size
        IN  /\ total = Cardinality({i \in 1..Len(in_area) :
                                       PassesAttributes(in_area[i], args)})
            /\ response.count = Len(response.deals)
            /\ response.count = IF skipped < total
                                THEN Min(response.page_size, total - skipped)
                                ELSE 0

\* C9 witness: three deals pass, page 1 of size 2 returns two of them.
C9_Witness ==
    /\ Answered
    /\ response.total = 3
    /\ response.page = 1
    /\ response.page_size = 2
    /\ response.count = 2

\* C10: in every deals response, has_more is true exactly when
\* page * page_size < total, for the page and page_size the response reports.
C10_HasMore ==
    Answered => (response.has_more <=> response.page * response.page_size < response.total)

\* C10 witness: the last page ends exactly at total, so has_more is false.
C10_Witness ==
    /\ Answered
    /\ response.page = 2
    /\ response.total > 0
    /\ response.page * response.page_size = response.total
    /\ ~response.has_more

\* C10, the other case: a request for page 0 is answered as page 1 with more
\* to come.
C10_NormalisedPageReached ==
    /\ Answered
    /\ request.page = Some(0)
    /\ response.page = 1
    /\ response.has_more

\* The attribute stage's result for the request being answered.
AttributeStage == SelectSeq(in_area, LAMBDA deal : PassesAttributes(deal, args))

\* The deal is one of the deals of the response.
Shown(deal) == \E k \in 1..Len(response.deals) : response.deals[k] = deal

\* A deals response whose page holds the whole result.
WholeResult == Answered /\ response.count = response.total

\* The attributes with a min and a max bound, and the bounds' arguments.
BoundedFields ==
    {[key |-> "bedrooms", lo |-> "min_bedrooms", hi |-> "max_bedrooms"],
     [key |-> "bathrooms", lo |-> "min_bathrooms", hi |-> "max_bathrooms"],
     [key |-> "square_feet", lo |-> "min_sqft", hi |-> "max_sqft"],
     [key |-> "lot_size", lo |-> "min_lot_size", hi |-> "max_lot_size"]}

IsNull(deal, key) == Get(deal, key, None) = None

WithoutBounds(a, f) == [a EXCEPT ![f.lo] = None, ![f.hi] = None]

\* C11: the deals of a response are a contiguous slice of the attribute
\* stage's result, and any two of them stand in the order they have in the
\* location stage's result.
C11_SliceKeepsOrder ==
    Answered =>
        /\ \E offset \in 0..Len(AttributeStage) :
               /\ offset + Len(response.deals) <= Len(AttributeStage)
               /\ \A k \in 1..Len(response.deals) :
                      response.deals[k] = AttributeStage[offset + k]
        /\ \A i, j \in 1..Len(response.deals) :
               i < j => \E p, q \in 1..Len(in_area) :
                            /\ p < q
                            /\ in_area[p] = response.deals[i]
                            /\ in_area[q] = response.deals[j]

\* C11 witness: a response of two deals after the attribute stage dropped the
\* newest of three.
C11_Witness ==
    /\ Answered
    /\ Len(in_area) = 3
    /\ Len(AttributeStage) = 2
    /\ response.deals = <<in_area[2], in_area[3]>>

\* C11, the other case: the second page of size 1 of a result of three.
C11_MiddlePageReached ==
    /\ Answered
    /\ Len(in_area) = 3
    /\ response.page = 2
    /\ response.page_size = 1
    /\ response.total = 3
    /\ response.deals = <<in_area[2]>>

\* C12: a deal whose bedrooms, bathrooms, square_feet or lot_size is null is
\* not excluded by that attribute's bounds: if it passes the attribute stage
\* without them, it is in the result with them.
C12_NullSkipsBounds ==
    WholeResult =>
        \A i \in 1..Len(in_area) : \A f \in BoundedFields :
            (IsNull(in_area[i], f.key) /\ PassesAttributes(in_area[i], WithoutBounds(args, f)))
                => Shown(in_area[i])

\* C12 witness: a deal with null bedrooms is returned for a request with a
\* positive min_bedrooms.
C12_Witness ==
    /\ WholeResult
    /\ args.min_bedrooms # None
    /\ Val(args.min_bedrooms) > 0
    /\ \E i \in 1..Len(in_area) : IsNull(in_area[i], "bedrooms") /\ Shown(in_area[i])

\* C13 (as claimed): every returned deal whose bedrooms, bathrooms,
\* square_feet or lot_size is present, the value 0 included, lies within the
\* supplied bounds for it.
C13_PresentValueWithinBounds ==
    Answered =>
        \A k \in 1..Len(response.deals) : \A f \in BoundedFields :
            LET deal == response.deals[k]
            IN  ~IsNull(deal, f.key) =>
                    /\ args[f.lo] # None => Val(deal[f.key]) >= Val(args[f.lo])
                    /\ args[f.hi] # None => Val(deal[f.key]) <= Val(args[f.hi])

\* C14 (as claimed): when min_school_rating is supplied, every returned deal
\* with a non-null school_rating, a rating of 0 included, has
\* school_rating >= min_school_rating.
C14_SchoolRatingAtLeastMin ==
    (Answered /\ args.min_school_rating # None) =>
        \A k \in 1..Len(response.deals) :
            LET deal == response.deals[k]
            IN  ~IsNull(deal, "school_rating") =>
                    Val(deal.school_rating) >= Val(args.min_school_rating)

\* C15 (as claimed): with market_status = off_market every returned deal has
\* its on_market key present with the value false; a deal whose flag is
\* missing or null is not returned.
C15_OffMarketOnlyExplicitFalse ==
    (Answered /\ args.market_status = Some("off_market")) =>
        \A k \in 1..Len(response.deals) :
            /\ "on_market" \notin response.deals[k].absent
            /\ response.deals[k].on_market = Some(FALSE)

\* C16 (as claimed): with market_status = on_market a deal that passes every
\* other attribute predicate is left out only when its on_market flag is
\* false; a deal whose flag is absent is returned.
C16_OnMarketKeepsAbsentFlag ==
    (WholeResult /\ args.market_status = Some("on_market")) =>
        \A i \in 1..Len(in_area) :
            (PassesAttributes(in_area[i], [args EXCEPT !.market_status = None])
                 /\ ~Shown(in_area[i]))
                => /\ ~IsNull(in_area[i], "on_market")
                   /\ in_area[i].on_market = Some(FALSE)

\* The pairs of bounds get_deals compares, with the message of the check.
RangeFields ==
    {[lo |-> "min_price", hi |-> "max_price",
      message |-> "min_price cannot be greater than max_price"],
     [lo |-> "min_bedrooms", hi |-> "max_bedrooms",
      message |-> "min_bedrooms cannot be greater than max_bedrooms"],
     [lo |-> "min_bathrooms", hi |-> "max_bathrooms",
      message |-> "min_bathrooms cannot be greater than max_bathrooms"],
     [lo |-> "min_sqft", hi |-> "max_sqft",
      message |-> "min_sqft cannot be greater than max_sqft"],
     [lo |-> "min_lot_size", hi |-> "max_lot_size",
      message |-> "min_lot_size cannot be greater than max_lot_size"]}

\* The request gives a number for the argument.
Parsed(req, name) == req[name] # None /\ req[name] # Unparsable

\* The request gives both bounds of the pair, the min above the max.
SuppliesInverted(req, f) ==
    Parsed(req, f.lo) /\ Parsed(req, f.hi) /\ Val(req[f.lo]) > Val(req[f.hi])

\* The checks of the request that fail, other than the pair's own.
OtherFailures(req, f) ==
    LET checks == ValidationChecks(ParseArgs(req))
    IN  {i \in 1..Len(checks) : checks[i][1] /\ checks[i][2] # f.message}

\* C17 (amended): a request that gives both bounds of a pair with min > max
\* is answered 400 "Invalid parameter" and never with deals; the message
\* names that pair's range when no other check of the request fails.
C17_InvertedRangeRejected ==
    hpc = "sent" =>
        \A f \in RangeFields :
            SuppliesInverted(request, f) =>
                /\ response.status = 400
                /\ response.error = "Invalid parameter"
                /\ OtherFailures(request, f) = {} => response.message = f.message

\* C17 witness: min_lot_size above max_lot_size, answered with the lot size
\* range message.
C17_Witness ==
    /\ hpc = "sent"
    /\ SuppliesInverted(request,
           [lo |-> "min_lot_size", hi |-> "max_lot_size",
            message |-> "min_lot_size cannot be greater than max_lot_size"])
    /\ response.status = 400
    /\ response.message = "min_lot_size cannot be greater than max_lot_size"

\* C17 (as claimed): the validation error of a request with min > max always
\* names that pair's range.
C17_InvertedRangeNamesField ==
    hpc = "sent" =>
        \A f \in RangeFields :
            SuppliesInverted(request, f) =>
                /\ response.status = 400
                /\ response.message = f.message

\* C18: a request that fails validation is answered 400 with no I/O done:
\* get_db_connection was not called and no query was executed; and whenever
\* the connection was asked for, the request had passed validation.
C18_ValidationBeforeIO ==
    /\ (hpc = "sent" /\ response.status = 400) => (io = <<>> /\ conn = "none")
    /\ (hpc \notin {"idle", "validate"} /\ ValidationError(ParseArgs(request)) # "")
           => /\ hpc = "sent"
              /\ response.status = 400
              /\ io = <<>>
    /\ io # <<>> => ValidationError(ParseArgs(request)) = ""

\* C18 witness: a request failing the last check made, the market_status
\* enum, is answered before any I/O.
C18_Witness ==
    /\ hpc = "sent"
    /\ response.status = 400
    /\ response.message = "market_status must be one of: on_market, off_market"
    /\ io = <<>>
    /\ conn = "none"

\* The request gives a number <= 0 for the argument.
NonPositive(req, name) == Parsed(req, name) /\ Val(req[name]) <= 0

\* The request is valid once the argument is replaced by the value.
ValidWith(req, name, value) ==
    ValidationError([ParseArgs(req) EXCEPT ![name] = Some(value)]) = ""

\* C19 (as claimed): a request whose page_size is absent or non-positive and
\* which is otherwise valid is served with page_size = 100, and one whose
\* page is absent or non-positive with page = 1, unless the query raised.
C19_PagingDefaultsNotRejected ==
    (hpc = "sent" /\ ~Did("raised")) =>
        /\ ((request.page_size = None \/ NonPositive(request, "page_size"))
                /\ ValidWith(request, "page_size", DefaultPageSize))
               => (response.status = 200 /\ response.page_size = DefaultPageSize)
        /\ ((request.page = None \/ NonPositive(request, "page"))
                /\ ValidWith(request, "page", DefaultPage))
               => (response.status = 200 /\ response.page = DefaultPage)

\* The arguments get_deals parses as numbers.
NumericArgs ==
    {"min_price", "max_price", "lat", "lng", "radius", "min_score", "limit",
     "page", "page_size", "min_bedrooms", "max_bedrooms", "min_bathrooms",
     "max_bathrooms", "min_sqft", "max_sqft", "min_lot_size", "max_lot_size",
     "min_school_rating"}

\* C20 (as claimed): a request with a numeric argument whose raw value does
\* not parse is answered with a validation failure.
C20_UnparsableIsRejected ==
    (hpc = "sent" /\ \E name \in NumericArgs : request[name] = Unparsable) =>
        response.status = 400

\* ------------------------------------------- claims: storage errors, scores
\* C21 (as claimed): the response to a request whose query raised does not
\* depend on the error's text: it carries the generic details only, whatever
\* app.debug is.
C21_StorageErrorNotLeaked ==
    (hpc = "sent" /\ Did("raised")) =>
        /\ response.status = 500
        /\ response.details \notin StorageErrors
        /\ response.details = "Internal server error"

\* The deal main processed last, its listings, and whether it has scored them.
Scored == di > 1 /\ scores # <<>>
LastDeal == deals[di - 1]
LastProps == search_zillow_properties(LastDeal)

\* The listing the placeholder search returns for the deal: about 0.01
\* degrees away in latitude and longitude, priced 5% below the deal.
IsMockListing(zillow_id) == zillow_id = MockListing(DealTable[1]).zillow_id

\* C22 (as claimed): the listing offset by 0.01 degrees and priced 5% below
\* the deal scores strictly more than 0.5 and main accepts it.
C22_OffsetListingIsGoodMatch ==
    (Scored /\ LastDeal.price > 0) =>
        /\ scores[1] > Threshold
        /\ \E k \in 1..Len(all_matches) :
               /\ all_matches[k].deal_id = LastDeal.id
               /\ IsMockListing(all_matches[k].zillow_id)

C24_IdenticalListingScore ==
    Scored =>
        \A k \in 1..Len(scores) :
            (LastProps[k].pos = LastDeal.pos /\ LastProps[k].price = LastDeal.price)
                => scores[k] = IF LastDeal.price > 0
                               THEN ScoreOne
                               ELSE WeightDistance * DistanceNorm

\* C24 witness: deal 1's identical listing scored 1.0.
C24_Witness ==
    /\ Scored
    /\ LastDeal.price > 0
    /\ \E k \in 1..Len(scores) :
           /\ LastProps[k].pos = LastDeal.pos
           /\ LastProps[k].price = LastDeal.price
           /\ scores[k] = ScoreOne

\* C24 (as claimed): a listing at the deal's position and price scores
\* exactly 1.0 for every non-negative price of the deal.
C24_IdenticalListingScoresOne ==
    Scored =>
        \A k \in 1..Len(scores) :
            (LastProps[k].pos = LastDeal.pos /\ LastProps[k].price = LastDeal.price)
                => scores[k] = ScoreOne

\* C25: for a deal with price 0 every score is 0.6 * distance_score, and
\* every Match row of such a deal has price_diff_percent = 0.
C25_ZeroPriceDeal ==
    /\ (Scored /\ LastDeal.price = 0) =>
           \A k \in 1..Len(scores) :
               scores[k] = WeightDistance
                               * Max(0, DistanceNorm
                                        - calculate_distance(LastDeal.pos, LastProps[k].pos))
    /\ \A i \in 1..Len(matchRows) :
           DealTable[matchRows[i].deal_id].price = 0 => matchRows[i].price_diff_percent = 0
    /\ \A i \in 1..Len(tx) :
           (pc = "save_matches" /\ DealTable[tx[i].deal_id].price = 0)
               => tx[i].price_diff_percent = 0

\* C25 witness: a completed run wrote the Match row of the price-0 deal and
\* its listing priced 700, 100 m away: score 0.54, price_diff_percent 0.
C25_Witness ==
    /\ pc = "done"
    /\ \E i \in 1..Len(RunMatchRows) :
           /\ DealTable[RunMatchRows[i].deal_id].price = 0
           /\ RunMatchRows[i].zillow_id = 33
           /\ RunMatchRows[i].match_score = 5400
           /\ RunMatchRows[i].price_diff_percent = 0

\* ------------------------------------------------ claims: reader and refresh
\* C26 (as claimed): a query on app.deals_enriched made while the Matcher
\* runs never waits for the refresh, and what it returns is the view as it
\* was before a refresh or as it is after one.
C26_ReadNeverBlockedNorPartial ==
    /\ rpc # "waiting"
    /\ rpc = "done" => \E k \in 1..Len(viewHistory) : seen = viewHistory[k]

\* ------------------------------------------------------- claims: the pages
\* The response get_deals gives for page p of the request being answered.
PageOf(p) == DealsResponse(AttributeStage, [args EXCEPT !.page = Some(p)])

RECURSIVE PagesUpTo(_)
\* The deals of pages 1..n, one page after the other.
PagesUpTo(n) == IF n = 0 THEN <<>> ELSE PagesUpTo(n - 1) \o PageOf(n).deals

\* C27: for the dataset and filters of a deals response, the pages 1, 2, ...
\* taken one after the other are the attribute stage's result, every deal on
\* exactly one page; every page past the end is empty with has_more false;
\* and the response is the page it reports.
C27_PagesPartitionResult ==
    Answered =>
        LET total == Len(AttributeStage)
        IN  /\ PagesUpTo(total + 1) = AttributeStage
            /\ \A i \in 1..total :
                   Cardinality({q \in 1..total + 1 :
                                    \E k \in 1..Len(PageOf(q).deals) :
                                        PageOf(q).deals[k] = AttributeStage[i]}) = 1
            /\ \A q \in 1..total + 2 :
                   (q - 1) * response.page_size >= total
                       => (PageOf(q).deals = <<>> /\ ~PageOf(q).has_more)
            /\ response = PageOf(response.page)

\* C27 witness: the second and last page of a result of three at page_size 2.
C27_Witness ==
    /\ Answered
    /\ response.total = 3
    /\ response.page_size = 2
    /\ response.page = 2
    /\ response.count = 1
    /\ ~response.has_more

\* --------------------------------------------------- claims: the scheduler
\* The job's run is over: update_schedule_after_run has saved the schedule.
Completed(e) == e.ran # -1

\* The log's last completed run of the job of entry i.
LastCompletedOfKey(i) ==
    /\ Completed(runLog[i])
    /\ \A j \in i + 1..Len(runLog) :
           runLog[j].key = runLog[i].key => ~Completed(runLog[j])

\* C28: a job's script is run only at or past the job's next_run and at most
\* once per invocation; after the run, failed or not, the saved schedule has
\* last_run at the run time and next_run strictly later; and the job is not
\* run again before that next_run, so not by an invocation that follows at
\* once.
C28_JobRunsWhenDueAndIsRescheduled ==
    /\ \A i \in 1..Len(runLog) :
           /\ runLog[i].checked >= runLog[i].due
           /\ Completed(runLog[i]) =>
                  /\ runLog[i].ran >= runLog[i].checked
                  /\ runLog[i].next_run > runLog[i].ran
           /\ LastCompletedOfKey(i) =>
                  /\ schedule_file[runLog[i].key].last_run = Str(runLog[i].ran)
                  /\ schedule_file[runLog[i].key].next_run = Str(runLog[i].next_run)
                  /\ schedule_file[runLog[i].key].status \in {"success", "failed"}
    /\ \A i, j \in 1..Len(runLog) :
           (i < j /\ runLog[i].key = runLog[j].key) =>
               /\ runLog[i].invocation < runLog[j].invocation
               /\ runLog[j].checked >= runLog[i].next_run
               /\ runLog[j].checked > runLog[i].ran

\* C28 witness: the first invocation ran a job whose script failed, and the
\* invocation that followed with no time between them ran nothing.
C28_Witness ==
    /\ invocation = 2
    /\ spc = "off"
    /\ jobs_run = 0
    /\ Len(runLog) = 1
    /\ runLog[1].invocation = 1
    /\ now = runLog[1].ran
    /\ schedule_file[runLog[1].key].status = "failed"

\* C28, the other case: a job was run by both invocations, the second when
\* its next_run had come.
C28_SecondRunReached ==
    /\ spc = "off"
    /\ \E i, j \in 1..Len(runLog) :
           /\ i < j
           /\ runLog[i].key = runLog[j].key
           /\ Completed(runLog[j])

\* ------------------------------------------------- claims: the migrations
\* C29 (as claimed): over any sequence of runs, interrupted ones included,
\* the statements of each migration file are committed at most once and in
\* sorted filename order, and when no run is under way every migration whose
\* statements are committed is recorded in schema_migrations.
C29_MigrationsAppliedOnceInOrder ==
    /\ \A i, j \in 1..Len(applied) : i < j => applied[i] < applied[j]
    /\ mpc = "off" => \A i \in 1..Len(applied) : applied[i] \in recorded

\* -------------------------------------------------- claims: the bulk import
\* The call is over.
BulkEnded == bpc \in {"returned", "raised"}

\* C30 (as claimed): bulk_insert_properties returns, and what it returns is
\* the number of rows it committed; between batches total_inserted is that
\* number and nothing is pending; no invalid record is committed; and every
\* batch of the list has been processed when the call is over.
C30_ReturnsCommittedCount ==
    /\ bpc # "raised"
    /\ bpc = "returned" => result = Some(Len(stored))
    /\ bpc \in {"batch", "returned", "raised"} =>
           (total_inserted = Len(stored) /\ bpending = <<>>)
    /\ \A k \in 1..Len(stored) : stored[k].valid
    /\ BulkEnded => processed = BatchStarts

====
